---- MODULE Spec2Model ----
(***************************************************************************)
(* vtkDICOMValue: a handle (one pointer V) to a reference-counted Value    *)
(* cell.  The handle's inline methods come from vtkDICOMValue.h; the       *)
(* out-of-line ones (Allocate<T>, FreeValue, ReallocateUnsignedCharData,   *)
(* operator==, Substring, CreateValue) are modelled from the design text.  *)
(***************************************************************************)
EXTENDS Integers, Sequences, FiniteSets, TLC

VARIABLES top, cells, last, out, arg, ub

vars == <<top, cells, last, out, arg, ub>>

----------------------------------------------------------------------------
(* Bounds *)

\* number of top-level vtkDICOMValue objects the client code owns
NumHandles == 2
\* number of Value cells the allocator hands out in one behaviour
MaxCells == 2
\* largest element count passed to a constructor or Allocate*Data call
MaxVn == 1
\* longest text passed to the string constructor
MaxText == 3

----------------------------------------------------------------------------
(* Program constants and types *)

\* the null Value pointer: V(0)
NULL == 0
\* the 32-bit pattern 0xffffffff of an unsigned int, written as its
\* two's-complement reading because the checker's integers are 32-bit signed;
\* it is odd, as 0xffffffff is.
UndefinedLength == -1

VTK_CHAR == "VTK_CHAR"
VTK_UNSIGNED_CHAR == "VTK_UNSIGNED_CHAR"
VTK_UNSIGNED_SHORT == "VTK_UNSIGNED_SHORT"
VTK_DICOM_VALUE == "VTK_DICOM_VALUE"

Handles == 1..NumHandles
CellIds == 1..MaxCells

\* element values of the binary payloads
Elems == {0, 1}
\* characters of the text payloads: a letter, the delimiter, the pad
Chars == {"A", "\\", " "}

\* VRs of the model: OB (bytes), US (unsigned short), AT (tags: no modelled
\* data type fits), CS (backslash-delimited text), LT (single-block text);
\* UN is the VR the multiplex cells are allocated under
BinaryVRs == {"OB", "US", "AT"}
DelimitedTextVRs == {"CS"}
SingleTextVRs == {"LT"}

\* struct Value, plus the allocator's view of the cell (st, nfree)
NoCell ==
  [st |-> "unalloc", rc |-> 0, Type |-> "none", VR |-> "none",
   VL |-> 0, N |-> 0, Data |-> <<>>, nfree |-> 0]

\* a vtkDICOMValue object is named by where it is stored: c = 0 for the
\* i-th top-level object, c > 0 for element i of the trailing array of cell c
TopRef(h) == [c |-> 0, i |-> h]
SlotRef(c, i) == [c |-> c, i |-> i]
NoRef == [c |-> 0, i |-> 0]

\* the whole memory as one value, so that a method is a function of it
Mem == [top |-> top, cells |-> cells]

RECURSIVE SeqsOfLen(_, _)
SeqsOfLen(S, n) ==
  IF n = 0 THEN {<<>>}
  ELSE {Append(s, x) : s \in SeqsOfLen(S, n - 1), x \in S}

SeqsUpTo(S, n) == UNION {SeqsOfLen(S, k) : k \in 0..n}

----------------------------------------------------------------------------
(* Reading and writing the pointer V of a value object *)

\* whether the storage of the value object r still exists
Exists(m, r) ==
  IF r.c = 0 THEN m.top[r.i].live
  ELSE /\ m.cells[r.c].st = "live"
       /\ m.cells[r.c].Type = VTK_DICOM_VALUE
       /\ r.i \in 1..Len(m.cells[r.c].Data)

Load(m, r) ==
  IF r.c = 0 THEN m.top[r.i].V
  ELSE IF Exists(m, r) THEN m.cells[r.c].Data[r.i] ELSE NULL

Store(m, r, v) ==
  IF r.c = 0 THEN [m EXCEPT !.top[r.i].V = v]
  ELSE IF Exists(m, r) THEN [m EXCEPT !.cells[r.c].Data[r.i] = v] ELSE m

\* ++(V->ReferenceCount)
Incr(m, c) == [m EXCEPT !.cells[c].rc = @ + 1]

\* --(V->ReferenceCount)
Decr(m, c) == [m EXCEPT !.cells[c].rc = @ - 1]

----------------------------------------------------------------------------
(* FreeValue and Clear *)

RECURSIVE FreeValue(_, _), Clear(_, _), DestroyValues(_, _, _)

\* the destructor of every nested value of a multiplex cell, in order
DestroyValues(m, c, i) ==
  IF i > Len(m.cells[c].Data) THEN m
  ELSE DestroyValues(Clear(m, SlotRef(c, i)), c, i + 1)

\* static void FreeValue(Value *v): destruct nested values, release the cell
FreeValue(m, c) ==
  LET m1 == IF m.cells[c].Type = VTK_DICOM_VALUE
            THEN DestroyValues(m, c, 1) ELSE m
  IN [m1 EXCEPT !.cells[c] =
        [NoCell EXCEPT !.st = "freed", !.nfree = m.cells[c].nfree + 1]]

\* Clear() that resets V only when it frees the cell
ClearKeepsSharedPointer(m, r) ==
  LET v == Load(m, r)
      m1 == IF v # NULL THEN Decr(m, v) ELSE m
  IN IF v # NULL /\ m1.cells[v].rc = 0
     THEN Store(FreeValue(m1, v), r, NULL)
     ELSE m1

\* void Clear()
Clear(m, r) ==
  LET v == Load(m, r)
      m1 == IF v # NULL THEN Decr(m, v) ELSE m
      m2 == IF v # NULL /\ m1.cells[v].rc = 0 THEN FreeValue(m1, v) ELSE m1
  IN Store(m2, r, NULL)

----------------------------------------------------------------------------
(* Accessors *)

IsValid(m, r) == Load(m, r) # NULL

GetVR(m, r) == IF Load(m, r) # NULL THEN m.cells[Load(m, r)].VR ELSE "none"

\* GetVL() that returns the other length field
GetVLReturnsCount(m, r) ==
  IF Load(m, r) # NULL THEN m.cells[Load(m, r)].N ELSE 0

GetVL(m, r) == IF Load(m, r) # NULL THEN m.cells[Load(m, r)].VL ELSE 0

\* GetNumberOfValues() that returns the other length field
GetNumberOfValuesReturnsVL(m, r) ==
  IF Load(m, r) # NULL THEN m.cells[Load(m, r)].VL ELSE 0

GetNumberOfValues(m, r) ==
  IF Load(m, r) # NULL THEN m.cells[Load(m, r)].N ELSE 0

\* the pointer to the nested values: the slots of a multiplex cell
GetMultiplexData(m, r) ==
  IF Load(m, r) # NULL /\ m.cells[Load(m, r)].Type = VTK_DICOM_VALUE
  THEN {SlotRef(Load(m, r), i) : i \in 1..Len(m.cells[Load(m, r)].Data)}
  ELSE {}

----------------------------------------------------------------------------
(* Constructors, destructor, assignment *)

\* vtkDICOMValue() : V(0)
DefaultConstruct(m, h) == [m EXCEPT !.top[h] = [live |-> TRUE, V |-> NULL]]

\* a copy constructor that does not count the new owner
CopyConstructNoIncrement(m, h, o) ==
  [m EXCEPT !.top[h] = [live |-> TRUE, V |-> Load(m, o)]]

\* vtkDICOMValue(const vtkDICOMValue &v)
CopyConstruct(m, h, o) ==
  LET v == Load(m, o)
      m1 == [m EXCEPT !.top[h] = [live |-> TRUE, V |-> v]]
  IN IF v # NULL THEN Incr(m1, v) ELSE m1

\* ~vtkDICOMValue()
Destroy(m, h) == [Clear(m, TopRef(h)) EXCEPT !.top[h].live = FALSE]

\* a release that frees the cell whatever its count
ReleaseOldAlwaysFrees(m, tv) ==
  IF tv # NULL THEN FreeValue(Decr(m, tv), tv) ELSE m

\* the release half of operator=
ReleaseOld(m, tv) ==
  IF tv # NULL
  THEN LET d == Decr(m, tv)
       IN IF d.cells[tv].rc = 0 THEN FreeValue(d, tv) ELSE d
  ELSE m

\* whether operator= reads o.V after o's storage was released
ReadsFreed(m, t, o) ==
  /\ Load(m, t) # Load(m, o)
  /\ ~Exists(ReleaseOld(IF Load(m, o) # NULL THEN Incr(m, Load(m, o)) ELSE m,
                        Load(m, t)), o)

\* operator= written as Clear() followed by a copy, with no test for the
\* two objects holding the same pointer
AssignReleaseFirst(m, t, o) ==
  LET m1 == Clear(m, t)
      v == Load(m1, o)
  IN {Store(IF v # NULL THEN Incr(m1, v) ELSE m1, t, v)}

\* operator=(const vtkDICOMValue& o): the set of memories it can leave.
\* The last statement, this->V = o.V, reads o again: when o lived in the
\* cell just freed, the read is of freed storage and yields either the
\* pointer the destructor stored (NULL) or the stale one.
Assign(m, t, o) ==
  LET tv == Load(m, t)
      ov == Load(m, o)
  IN IF tv = ov THEN {m}
     ELSE LET m1 == IF ov # NULL THEN Incr(m, ov) ELSE m
              m2 == ReleaseOld(m1, tv)
          IN IF Exists(m2, o) THEN {Store(m2, t, Load(m2, o))}
             ELSE {Store(m2, t, v) : v \in {NULL, ov}}

----------------------------------------------------------------------------
(* The allocator *)

HasFresh(m) == \E c \in CellIds : m.cells[c].st = "unalloc"

\* the cell the next allocation returns
FreshCell(m) ==
  CHOOSE c \in CellIds :
    /\ m.cells[c].st = "unalloc"
    /\ \A d \in CellIds : m.cells[d].st = "unalloc" => c <= d

\* sizeof(T); a nested vtkDICOMValue is one pointer
SizeOf(T) ==
  CASE T = VTK_CHAR -> 1
    [] T = VTK_UNSIGNED_CHAR -> 1
    [] T = VTK_UNSIGNED_SHORT -> 2
    [] T = VTK_DICOM_VALUE -> 8

\* the value length of vn elements of type T: the byte length, padded by one
\* byte when it is odd
AllocVL(T, vn) == (vn * SizeOf(T)) + ((vn * SizeOf(T)) % 2)

\* what the trailing array of a fresh cell can hold: the nested values are
\* default-constructed, the elements of the other types are not initialized
FreshData(T, vn) ==
  IF T = VTK_DICOM_VALUE THEN {[i \in 1..vn |-> NULL]}
  ELSE IF T = VTK_CHAR THEN SeqsOfLen(Chars, AllocVL(T, vn))
  ELSE SeqsOfLen(Elems, vn)

\* T *Allocate<T>(vr, vn), with the contents d the array then holds:
\* the handle lets go of its cell and points at a fresh one, count 1
Allocate(m, r, T, vr, vn, d) ==
  LET m1 == Clear(m, r)
      c == FreshCell(m1)
      m2 == [m1 EXCEPT !.cells[c] =
               [st |-> "live", rc |-> 1, Type |-> T, VR |-> vr,
                VL |-> AllocVL(T, vn), N |-> vn, Data |-> d,
                nfree |-> 0]]
  IN Store(m2, r, c)

\* unsigned char *ReallocateUnsignedCharData(vn), with the array d it leaves:
\* the cell of the handle is resized where it is
ReallocateUnsignedCharData(m, r, vn, d) ==
  LET c == Load(m, r)
  IN [m EXCEPT !.cells[c].N = vn,
               !.cells[c].VL = UndefinedLength,
               !.cells[c].Data = d]

\* the arrays a reallocation to vn elements can leave: the old elements that
\* fit are kept, the new ones are not initialized
ReallocData(old, vn) ==
  {d \in SeqsOfLen(Elems, vn) :
     \A i \in 1..vn : i <= Len(old) => d[i] = old[i]}

\* the element type a VR stores, for the data types of the model
TypeForVR(vr, argT) ==
  CASE vr \in {"OB", "UN"} /\ argT = VTK_UNSIGNED_CHAR -> VTK_UNSIGNED_CHAR
    [] vr = "US" /\ argT \in {VTK_UNSIGNED_CHAR, VTK_UNSIGNED_SHORT}
         -> VTK_UNSIGNED_SHORT
    [] vr \in DelimitedTextVRs \cup SingleTextVRs /\ argT = VTK_CHAR
         -> VTK_CHAR
    [] OTHER -> "none"

\* whether constructing a value needs a cell
NeedsCell(vr, argT) == TypeForVR(vr, argT) # "none"

\* the number of c in s
RECURSIVE CountChar(_, _)
CountChar(s, c) ==
  IF s = <<>> THEN 0
  ELSE (IF Head(s) = c THEN 1 ELSE 0) + CountChar(Tail(s), c)

\* text padded to an even length with a space
Padded(s) == IF Len(s) % 2 = 1 THEN Append(s, " ") ELSE s

\* the typed constructors: CreateValue<T>(vr, data, end) on a new object h.
\* Data the VR cannot hold leaves the value invalid.
CreateValue(m, h, argT, vr, d) ==
  LET m0 == [m EXCEPT !.top[h] = [live |-> TRUE, V |-> NULL]]
      T == TypeForVR(vr, argT)
  IN IF T = "none" THEN m0
     ELSE IF T = VTK_CHAR
     THEN LET a == Allocate(m0, TopRef(h), T, vr, Len(d), Padded(d))
              c == Load(a, TopRef(h))
          IN [a EXCEPT !.cells[c].N =
                IF vr \in SingleTextVRs THEN 1
                ELSE CountChar(d, "\\") + 1]
     ELSE Allocate(m0, TopRef(h), T, vr, Len(d), d)

----------------------------------------------------------------------------
(* Substring, GetString *)

\* the index one past the end of the field that starts at index a of s
RECURSIVE FieldEnd(_, _)
FieldEnd(s, a) ==
  IF a > Len(s) \/ s[a] = "\\" THEN a ELSE FieldEnd(s, a + 1)

\* the start of field i of s, counted from the field that starts at a;
\* Len(s) + 2 when there is no such field
RECURSIVE FieldStart(_, _, _)
FieldStart(s, a, i) ==
  IF i = 0 THEN a
  ELSE IF FieldEnd(s, a) > Len(s) THEN Len(s) + 2
  ELSE FieldStart(s, FieldEnd(s, a) + 1, i - 1)

\* sequence s without the spaces that end it
RECURSIVE StripTrailing(_)
StripTrailing(s) ==
  IF s # <<>> /\ s[Len(s)] = " " THEN StripTrailing(SubSeq(s, 1, Len(s) - 1))
  ELSE s

\* Substring that leaves the delimiter at the end of the value
SubstringKeepsDelimiter(m, r, i) ==
  LET c == Load(m, r)
      s == m.cells[c].Data
      a == FieldStart(s, 1, i)
      e == IF a > Len(s) + 1 THEN a ELSE FieldEnd(s, a)
  IN IF i >= m.cells[c].N THEN <<1, 1>>
     ELSE <<a, IF e <= Len(s) THEN e + 1 ELSE e>>

\* void Substring(i, start, end): the range [start, end) of value i, as
\* indices into the character data; an empty range when i is out of range.
\* The pad that ends the data is not part of the last value.
Substring(m, r, i) ==
  LET c == Load(m, r)
      s == m.cells[c].Data
      a == IF m.cells[c].VR \in SingleTextVRs
           THEN (IF i = 0 THEN 1 ELSE Len(s) + 2)
           ELSE FieldStart(s, 1, i)
      e == IF a > Len(s) + 1 THEN a
           ELSE IF m.cells[c].VR \in SingleTextVRs THEN Len(s) + 1
           ELSE FieldEnd(s, a)
      e2 == IF e = Len(s) + 1
            THEN a + Len(StripTrailing(SubSeq(s, a, e - 1)))
            ELSE e
  IN IF i >= m.cells[c].N THEN <<1, 1>> ELSE <<a, e2>>

\* std::string GetString(i)
GetString(m, r, i) ==
  IF Load(m, r) = NULL \/ m.cells[Load(m, r)].Type # VTK_CHAR THEN <<>>
  ELSE LET se == Substring(m, r, i)
       IN SubSeq(m.cells[Load(m, r)].Data, se[1], se[2] - 1)

----------------------------------------------------------------------------
(* operator== *)

RECURSIVE EqualV(_, _, _), Compare(_, _, _, _)

\* ValueT<T>::Compare(a, b): element by element, each type by its own
\* equality; nested values by operator==
Compare(m, a, b, i) ==
  IF i > Len(m.cells[a].Data) THEN TRUE
  ELSE IF i > Len(m.cells[b].Data) THEN FALSE
  ELSE /\ IF m.cells[a].Type = VTK_DICOM_VALUE
          THEN EqualV(m, m.cells[a].Data[i], m.cells[b].Data[i])
          ELSE m.cells[a].Data[i] = m.cells[b].Data[i]
       /\ Compare(m, a, b, i + 1)

\* operator== on the two pointers
EqualV(m, a, b) ==
  IF a = NULL \/ b = NULL THEN a = b
  ELSE /\ m.cells[a].VR = m.cells[b].VR
       /\ m.cells[a].Type = m.cells[b].Type
       /\ m.cells[a].N = m.cells[b].N
       /\ Len(m.cells[a].Data) = Len(m.cells[b].Data)
       /\ Compare(m, a, b, 1)

\* operator== that compares the pointers
EqualByIdentity(m, a, b) == Load(m, a) = Load(m, b)

\* bool operator==(const vtkDICOMValue& o)
Equal(m, a, b) == EqualV(m, Load(m, a), Load(m, b))

\* bool operator!=(const vtkDICOMValue& o)
NotEqual(m, a, b) == ~Equal(m, a, b)

----------------------------------------------------------------------------
(* The state machine: client code calling the methods *)

\* top:   the client's value objects (live: constructed and not destroyed)
\* cells: the Value cells
\* last:  the call just made: its name, the objects t (this) and o (the
\*        argument), the pointers they held before it, its number argument
\* out:   what the call returned, when it was GetString
\* arg:   the text the string constructor was last given
\* ub:    whether some call has read freed storage
NoOut == [i |-> 0, s |-> <<>>]

NoCall == [op |-> "Init", t |-> NoRef, o |-> NoRef, tv |-> NULL, ov |-> NULL,
           n |-> 0]

Init ==
  /\ top = [h \in Handles |-> [live |-> FALSE, V |-> NULL]]
  /\ cells = [c \in CellIds |-> NoCell]
  /\ last = NoCall
  /\ out = NoOut
  /\ arg = <<>>
  /\ ub = FALSE

\* the value objects client code can name: its own, and the nested values it
\* reaches through GetMultiplexData
Refs(m) ==
  {TopRef(h) : h \in {g \in Handles : m.top[g].live}}
    \cup UNION {GetMultiplexData(m, TopRef(h)) :
                  h \in {g \in Handles : m.top[g].live}}

\* one method call: the memory it leaves, and which call it was
Step(op, t, o, n, m2) ==
  /\ top' = m2.top
  /\ cells' = m2.cells
  /\ last' = [op |-> op, t |-> t, o |-> o, tv |-> Load(Mem, t),
              ov |-> IF o = NoRef THEN NULL ELSE Load(Mem, o), n |-> n]
  /\ out' = NoOut

ADefault(h) ==
  /\ ~top[h].live
  /\ Step("Default", TopRef(h), NoRef, 0, DefaultConstruct(Mem, h))
  /\ UNCHANGED <<arg, ub>>

ACopy(h, o) ==
  /\ ~top[h].live
  /\ o \in Refs(Mem)
  /\ Step("Copy", TopRef(h), o, 0, CopyConstruct(Mem, h, o))
  /\ UNCHANGED <<arg, ub>>

ACreate(h, argT, vr, d) ==
  /\ ~top[h].live
  /\ NeedsCell(vr, argT) => HasFresh(Mem)
  /\ Step("Create", TopRef(h), NoRef, Len(d), CreateValue(Mem, h, argT, vr, d))
  /\ arg' = IF argT = VTK_CHAR THEN d ELSE arg
  /\ UNCHANGED ub

ADestroy(h) ==
  /\ top[h].live
  /\ Step("Destroy", TopRef(h), NoRef, 0, Destroy(Mem, h))
  /\ UNCHANGED <<arg, ub>>

AClear(h) ==
  /\ top[h].live
  /\ Step("Clear", TopRef(h), NoRef, 0, Clear(Mem, TopRef(h)))
  /\ UNCHANGED <<arg, ub>>

\* a nested value is only ever given a value that holds no nested values
AAssign(t, o) ==
  /\ t \in Refs(Mem)
  /\ o \in Refs(Mem)
  /\ t.c # 0 => GetMultiplexData(Mem, o) = {} /\ o.c # t.c
  /\ \E m2 \in Assign(Mem, t, o) : Step("Assign", t, o, 0, m2)
  /\ ub' = (ub \/ ReadsFreed(Mem, t, o))
  /\ UNCHANGED arg

AAllocate(h, T, vr, vn) ==
  /\ top[h].live
  /\ HasFresh(Clear(Mem, TopRef(h)))
  /\ \E d \in FreshData(T, vn) :
       Step("Allocate", TopRef(h), NoRef, vn,
            Allocate(Mem, TopRef(h), T, vr, vn, d))
  /\ UNCHANGED <<arg, ub>>

\* the caller's obligation: the value is a valid OB or UN byte value
ARealloc(h, vn) ==
  /\ top[h].live
  /\ top[h].V # NULL
  /\ cells[top[h].V].Type = VTK_UNSIGNED_CHAR
  /\ cells[top[h].V].VR \in {"OB", "UN"}
  /\ \E d \in ReallocData(cells[top[h].V].Data, vn) :
       Step("Realloc", TopRef(h), NoRef, vn,
            ReallocateUnsignedCharData(Mem, TopRef(h), vn, d))
  /\ UNCHANGED <<arg, ub>>

AGetString(h, i) ==
  /\ top[h].live
  /\ out' = [i |-> i, s |-> GetString(Mem, TopRef(h), i)]
  /\ last' = [op |-> "GetString", t |-> TopRef(h), o |-> NoRef,
              tv |-> top[h].V, ov |-> NULL, n |-> i]
  /\ UNCHANGED <<top, cells, arg, ub>>

\* the (type, VR) pairs of the Allocate*Data calls; no check ties them
AllocKinds ==
  {<<VTK_UNSIGNED_CHAR, "OB">>, <<VTK_UNSIGNED_SHORT, "US">>,
   <<VTK_UNSIGNED_SHORT, "OB">>, <<VTK_DICOM_VALUE, "UN">>}

Next ==
  \/ \E h \in Handles : ADefault(h)
  \/ \E h \in Handles : \E o \in Refs(Mem) : ACopy(h, o)
  \/ \E h \in Handles : \E argT \in {VTK_UNSIGNED_CHAR, VTK_UNSIGNED_SHORT} :
       \E vr \in BinaryVRs : \E d \in SeqsUpTo(Elems, MaxVn) :
         ACreate(h, argT, vr, d)
  \/ \E h \in Handles : ADestroy(h)
  \/ \E h \in Handles : AClear(h)
  \/ \E t \in Refs(Mem) : \E o \in Refs(Mem) : AAssign(t, o)
  \/ \E h \in Handles : \E k \in AllocKinds : \E vn \in 0..MaxVn :
       AAllocate(h, k[1], k[2], vn)
  \/ \E h \in Handles : \E vn \in 0..MaxVn : ARealloc(h, vn)

Spec == Init /\ [][Next]_vars

\* the text values: one value object constructed from a string, read value
\* by value, destroyed
Texts == SeqsUpTo(Chars, MaxText)

TextVRs == DelimitedTextVRs \cup SingleTextVRs \cup {"AT"}

NextText ==
  \/ \E vr \in TextVRs : \E d \in Texts : ACreate(1, VTK_CHAR, vr, d)
  \/ \E i \in 0..(MaxText + 1) : AGetString(1, i)
  \/ ADestroy(1)

SpecText == Init /\ [][NextText]_vars

----------------------------------------------------------------------------
(* What the claims speak of *)

LiveHandles == {h \in Handles : top[h].live}

\* every nested value object that exists
AllSlots(m) ==
  UNION {{SlotRef(c, i) : i \in 1..Len(m.cells[c].Data)} :
           c \in {d \in CellIds : /\ m.cells[d].st = "live"
                                  /\ m.cells[d].Type = VTK_DICOM_VALUE}}

\* every value object that exists
AllRefs(m) == {TopRef(h) : h \in {g \in Handles : m.top[g].live}} \cup AllSlots(m)

\* the number of value objects whose V is c
NumRefs(m, c) == Cardinality({r \in AllRefs(m) : Load(m, r) = c})

\* what a caller can observe of a value through its accessors
Obs(m, r) ==
  [valid |-> IsValid(m, r), VR |-> GetVR(m, r), VL |-> GetVL(m, r),
   N |-> GetNumberOfValues(m, r),
   Data |-> IF Load(m, r) = NULL THEN <<>> ELSE m.cells[Load(m, r)].Data]

\* the calls that make a value object let go of its cell
Discards == {"Clear", "Destroy", "Assign"}

----------------------------------------------------------------------------
(* C1 *)

\* C1: every live cell's reference count is the number of value objects
\* that point at it, and is at least 1; a cell is freed at most once; no
\* value object points at a cell that is not live.
C1_CountIsNumberOfHandles ==
  \A c \in CellIds :
    /\ cells[c].st = "live" => /\ cells[c].rc = NumRefs(Mem, c)
                               /\ cells[c].rc >= 1
    /\ cells[c].st # "live" => NumRefs(Mem, c) = 0
    /\ cells[c].nfree <= 1

\* The same, for the behaviours in which no assignment has read its
\* argument out of the cell it had just freed.
CountIsNumberOfHandlesUnlessFreedRead == ub \/ C1_CountIsNumberOfHandles

----------------------------------------------------------------------------
(* C2 *)

\* C2: when a value object lets go of a cell that another value object B
\* shares, B still points at the cell, the cell is live, B reports the same
\* VR, VL, number of values and contents, and B equals every value object
\* that points at the cell.
C2_SharingNotObservable ==
  [][last'.op \in Discards /\ last'.tv # NULL
       => \A b \in Refs(Mem) \ {last'.t} :
            Load(Mem, b) = last'.tv
              => /\ Load(Mem', b) = last'.tv
                 /\ cells'[last'.tv].st = "live"
                 /\ Obs(Mem', b) = Obs(Mem, b)
                 /\ \A c \in Refs(Mem') :
                      Load(Mem', c) = last'.tv => Equal(Mem', b, c)]_vars

\* a value object has let go of a cell that a copy of it still holds
C2_Witness ==
  /\ last.op \in Discards
  /\ last.tv # NULL
  /\ Load(Mem, last.t) # last.tv
  /\ \E h \in LiveHandles : TopRef(h) # last.t /\ top[h].V = last.tv

----------------------------------------------------------------------------
(* C3 *)

\* C3: a value object that was just default-constructed or cleared is
\* invalid, and every invalid value object reports IsValid() false, VL 0 and
\* 0 values.
C3_InvalidReportsZero ==
  /\ last.op \in {"Default", "Clear"} => ~IsValid(Mem, last.t)
  /\ \A r \in Refs(Mem) :
       Load(Mem, r) = NULL
         => /\ ~IsValid(Mem, r)
            /\ GetVL(Mem, r) = 0
            /\ GetNumberOfValues(Mem, r) = 0

\* Clear() has acted on a valid value whose cell another value shares
C3_Witness ==
  /\ last.op = "Clear"
  /\ last.tv # NULL
  /\ cells[last.tv].st = "live"

----------------------------------------------------------------------------
(* C4 *)

----------------------------------------------------------------------------
(* C5 *)

----------------------------------------------------------------------------
(* C6 *)

\* a nested value as an element: what it holds, with or without its type tag
Element(m, v, typed) ==
  IF v = NULL
  THEN [valid |-> FALSE, VR |-> "none", T |-> "none", N |-> 0, D |-> <<>>]
  ELSE [valid |-> TRUE, VR |-> m.cells[v].VR,
        T |-> IF typed THEN m.cells[v].Type ELSE "any",
        N |-> m.cells[v].N, D |-> m.cells[v].Data]

\* the elements of cells a and b are equal one by one; a nested value is
\* never equal to a number
SameElements(m, a, b, typed) ==
  IF m.cells[a].Type = VTK_DICOM_VALUE /\ m.cells[b].Type = VTK_DICOM_VALUE
  THEN /\ Len(m.cells[a].Data) = Len(m.cells[b].Data)
       /\ \A i \in 1..Len(m.cells[a].Data) :
            Element(m, m.cells[a].Data[i], typed)
              = Element(m, m.cells[b].Data[i], typed)
  ELSE /\ m.cells[a].Type # VTK_DICOM_VALUE
       /\ m.cells[b].Type # VTK_DICOM_VALUE
       /\ m.cells[a].Data = m.cells[b].Data

----------------------------------------------------------------------------
(* C7 *)

\* the fields of a text, split at the backslashes
RECURSIVE Split(_, _, _)
Split(s, done, cur) ==
  IF s = <<>> THEN Append(done, cur)
  ELSE IF Head(s) = "\\" THEN Split(Tail(s), Append(done, cur), <<>>)
  ELSE Split(Tail(s), done, Append(cur, Head(s)))

Fields(s) == Split(s, <<>>, <<>>)

RECURSIVE StripLeading(_)
StripLeading(s) ==
  IF s # <<>> /\ Head(s) = " " THEN StripLeading(Tail(s)) ELSE s

Trimmed(s) == StripLeading(StripTrailing(s))

\* GetString(i) has just been called on a valid backslash-delimited text
ReadDelimited ==
  /\ last.op = "GetString"
  /\ last.tv # NULL
  /\ cells[last.tv].VR \in DelimitedTextVRs

----------------------------------------------------------------------------
(* C8 *)

\* C8: an assignment between two value objects that hold the same pointer
\* changes neither the cells (counts, contents, none freed) nor any pointer.
C8_SameCellAssignIsNoOp ==
  [][last'.op = "Assign" /\ Load(Mem, last'.t) = Load(Mem, last'.o)
       => top' = top /\ cells' = cells]_vars

\* a value object whose cell has count 1 was assigned to itself
C8_Witness ==
  /\ last.op = "Assign"
  /\ last.t = last.o
  /\ last.tv # NULL
  /\ cells[last.tv].st = "live"
  /\ cells[last.tv].rc = 1

----------------------------------------------------------------------------
(* C9 *)

\* the cell a call writes in place: the one reallocated, or the one whose
\* nested value is assigned through the GetMultiplexData pointer
MutatedCell(call) ==
  IF call.op = "Realloc" THEN call.tv
  ELSE IF call.op = "Assign" /\ call.t.c # 0 THEN call.t.c
  ELSE NULL

----------------------------------------------------------------------------
(* C10 *)

\* C10: after an assignment between value objects with different pointers,
\* the target holds the pointer the source held, that cell is live with a
\* count equal to the number of value objects pointing at it, the target's
\* old cell was decremented once and freed if that made it 0, and the source
\* was not read after its storage was freed.
C10_AssignTakesSourceCell ==
  [][last'.op = "Assign" /\ Load(Mem, last'.t) # Load(Mem, last'.o)
       => /\ Load(Mem', last'.t) = Load(Mem, last'.o)
          /\ last'.ov # NULL
               => /\ cells'[last'.ov].st = "live"
                  /\ cells'[last'.ov].rc = NumRefs(Mem', last'.ov)
          /\ last'.tv # NULL
               => IF cells[last'.tv].rc = 1
                  THEN cells'[last'.tv].st = "freed"
                  ELSE cells'[last'.tv].rc = cells[last'.tv].rc - 1
          /\ ~ReadsFreed(Mem, last'.t, last'.o)]_vars

====
